---- MODULE Spec2Model ----
(***************************************************************************)
(* Sakila -> star-schema synchronisation (etl.py, models.py, db.py).       *)
(*                                                                         *)
(* The source store is an external MySQL database on the same host as the  *)
(* pipeline (db.py:6), so the source's last_update stamps and the          *)
(* pipeline's datetime.now() are readings of one clock, `now`.  The target *)
(* store is the SQLite file the pipeline owns.  `db` is the committed      *)
(* content of the target, `tx` is what the open target session sees        *)
(* (committed content plus its own flushed, uncommitted changes).          *)
(*                                                                         *)
(* The descriptive columns of a row (title, rating, names, city, country,  *)
(* amount, return date...) are copied verbatim by every sync and are       *)
(* modelled as one value, attr.  The seed rows carry content 0 and the n-th *)
(* write of the operational system stores content n, so that every write   *)
(* changes what the row holds.                                             *)
(***************************************************************************)
EXTENDS Integers, FiniteSets, Sequences, TLC

\* ---- bounds of the model ----
MaxId     == 2      \* natural keys of every source table are 1..MaxId
MaxClock  == 2      \* the clock runs from 1 to MaxClock
MaxWrites == 1      \* source-side writes by the operational system
MaxYears  == 3      \* years of the calendar range, from start_year on

\* ---- program constants ----
NULL    == 0        \* None: dict.get() miss, absent foreign key
MinTime == 0        \* datetime.datetime.min
Tolerance == 1      \* 0.01, in hundredths: the revenue check's tolerance
start_year == 2000  \* load_dim_date(start_year=2000, ...)
BatchSize == 1000   \* if len(batch) >= 1000: commit

Ids   == 1..MaxId
Time  == 1..MaxClock

Dims  == {"dim_film", "dim_customer", "dim_store", "dim_actor", "dim_category"}
Facts == {"fact_rental", "fact_payment"}
Tables == Dims \cup Facts

\* the order in which full_load and incremental_load call the table syncs
\* the fact syncs are called before the dimension syncs
SyncOrder_FactsFirst ==
    << "fact_rental", "fact_payment", "dim_film", "dim_customer", "dim_store",
       "dim_actor", "dim_category", "bridge" >>

SyncOrder == << "dim_film", "dim_customer", "dim_store", "dim_actor",
                "dim_category", "fact_rental", "fact_payment", "bridge" >>

VARIABLES
    now,      \* wall clock
    src,      \* source store: src[t] maps natural key -> source row
    links,    \* source association tables film_actor / film_category
    db,       \* target store, committed
    tx,       \* target store as seen by the open session
    pc,       \* position of the running load: [kind, step, phase]
    changes,  \* rows returned by the extraction query of the sync in progress
    hist,     \* bookkeeping: source writes so far, and what is known of the
              \* runs since the source last changed
    runs,     \* two pipeline processes started side by side: per process its
              \* position, extraction, pending object and open transaction
    lock,     \* the process holding the write lock of the target file, or 0
    cal,      \* load_dim_date: DimDate and the position of the loop
    report    \* what the validate_data call that has just returned printed

\* what the pipeline run of one process, taken alone, never touches
aside == << runs, lock, cal, report >>

vars == << now, src, links, db, tx, pc, changes, hist, runs, lock, cal, report >>

Max(S) == CHOOSE m \in S : \A x \in S : x <= m

Perms(S) == { s \in [1..Cardinality(S) -> S] :
                \A i, j \in 1..Cardinality(S) : s[i] = s[j] => i = j }

\* ---- the target store ----

EmptyStore ==
    [ rows |-> [t \in Tables |-> {}],
      sync |-> << >>,
      bfa  |-> {},
      bfc  |-> {} ]

\* a table without SyncState row is read as synced just now
last_sync_AbsentIsNow(s, t) == IF t \in DOMAIN s.sync THEN s.sync[t] ELSE now

\* state.last_sync_timestamp if state else datetime.datetime.min
last_sync(s, t) == IF t \in DOMAIN s.sync THEN s.sync[t] ELSE MinTime

\* INTEGER PRIMARY KEY of SQLite: one more than the largest key in the table
NextKey(rows) == Max({ r.key : r \in rows } \cup {0}) + 1

get_surrogate_key_map(rows) ==
    [ i \in { r.id : r \in rows } |->
        CHOOSE k \in { r.key : r \in rows } : \E r \in rows : r.id = i /\ r.key = k ]

\* dict.get(key): None when the key is missing
Lookup(m, i) == IF i \in DOMAIN m THEN m[i] ELSE NULL

\* the watermark is not written
update_sync_state_Skipped(s, t, ts) == s

\* the SyncState rows are deleted and the table's row is added
update_sync_state_Recreate(s, t, ts) ==
    [s EXCEPT !.sync = [u \in {t} |-> ts]]

\* one watermark for the whole target: every table's SyncState row is written
update_sync_state_AllTables(s, t, ts) ==
    [s EXCEPT !.sync = [u \in Tables |-> ts]]

update_sync_state(s, t, ts) ==
    [s EXCEPT !.sync = [u \in DOMAIN s.sync \cup {t} |->
                            IF u = t THEN ts ELSE s.sync[u]]]

\* ---- extraction ----

\* the filter is last_update >= last_sync
ChangedRows_Inclusive(source, t, w) ==
    [ i \in { j \in DOMAIN source[t] : source[t][j].lu >= w } |-> source[t][i] ]

\* the filter is dropped: every source row is extracted
ChangedRows_All(source, t, w) ==
    [ i \in DOMAIN source[t] |-> source[t][i] ]

\* the filter is last_update != last_sync
ChangedRows_NotEqual(source, t, w) ==
    [ i \in { j \in DOMAIN source[t] : source[t][j].lu # w } |-> source[t][i] ]

\* source.query(...).filter(last_update > last_sync).all()
ChangedRows(source, t, w) ==
    [ i \in { j \in DOMAIN source[t] : source[t][j].lu > w } |-> source[t][i] ]

\* if not changes: return
NoChanges_Ignored(ch) == FALSE

NoChanges(ch) == DOMAIN ch = {}

\* ---- upsert of one extracted row ----

KeyMaps(s) ==
    [ film  |-> get_surrogate_key_map(s.rows["dim_film"]),
      cust  |-> get_surrogate_key_map(s.rows["dim_customer"]),
      store |-> get_surrogate_key_map(s.rows["dim_store"]) ]

NewRow(t, k, i, r, maps, ts) ==
    IF t \in Dims
    THEN [ key |-> k, id |-> i, attr |-> r.attr, last_update |-> ts ]
    ELSE IF t = "fact_rental"
    THEN [ key |-> k, id |-> i, attr |-> r.attr,
           film_key     |-> Lookup(maps.film, r.film_id),
           customer_key |-> Lookup(maps.cust, r.customer_id),
           store_key    |-> NULL,
           last_update  |-> ts ]
    ELSE [ key |-> k, id |-> i, attr |-> r.attr,
           film_key     |-> NULL,
           customer_key |-> Lookup(maps.cust, r.customer_id),
           store_key    |-> Lookup(maps.store, r.store_id),
           last_update  |-> ts ]

UpdateRow(t, e, r, maps, ts) ==
    IF t = "fact_payment"
    THEN [ e EXCEPT !.attr = r.attr,
                    !.customer_key = Lookup(maps.cust, r.customer_id),
                    !.store_key    = Lookup(maps.store, r.store_id),
                    !.last_update  = ts ]
    ELSE [ e EXCEPT !.attr = r.attr, !.last_update = ts ]

\* the existing-row lookup is skipped: every extracted row is inserted
UpsertOne_NoLookup(rows, t, i, r, maps, ts) ==
    rows \cup { NewRow(t, NextKey(rows), i, r, maps, ts) }

\* target.query(Model).filter_by(<id>=src.<id>).first(), then update or insert
UpsertOne(rows, t, i, r, maps, ts) ==
    LET found == { e \in rows : e.id = i } IN
    IF found # {}
    THEN LET e == CHOOSE x \in found : \A y \in found : x.key <= y.key
         IN  (rows \ {e}) \cup { UpdateRow(t, e, r, maps, ts) }
    ELSE rows \cup { NewRow(t, NextKey(rows), i, r, maps, ts) }

RECURSIVE UpsertAll(_, _, _, _, _, _, _)
UpsertAll(rows, t, ch, order, n, maps, ts) ==
    IF n > Len(order) THEN rows
    ELSE UpsertAll(UpsertOne(rows, t, order[n], ch[order[n]], maps, ts),
                   t, ch, order, n + 1, maps, ts)

\* delete all -> insert the extracted rows, as the bridges are rebuilt
Upsert_Replace(s, t, ch, order, ts) ==
    [s EXCEPT !.rows[t] = UpsertAll({}, t, ch, order, 1, KeyMaps(s), ts)]

\* the upsert loop of sync_dim_* / sync_fact_*
Upsert(s, t, ch, order, ts) ==
    [s EXCEPT !.rows[t] = UpsertAll(s.rows[t], t, ch, order, 1, KeyMaps(s), ts)]

\* ---- bridge rebuild ----

\* 'if f_key and a_key' is dropped: unresolved links are loaded too
BridgeRows_NoFilter(lk, m1, m2) ==
    { << Lookup(m1, l[1]), Lookup(m2, l[2]) >> : l \in lk }

BridgeRows(lk, m1, m2) ==
    { << Lookup(m1, l[1]), Lookup(m2, l[2]) >> :
        l \in { x \in lk : Lookup(m1, x[1]) # NULL /\ Lookup(m2, x[2]) # NULL } }

\* step 1 is left out: the rows of the last rebuild stay
sync_bridge_tables_NoDelete(s, lk) ==
    LET film_map     == get_surrogate_key_map(s.rows["dim_film"])
        actor_map    == get_surrogate_key_map(s.rows["dim_actor"])
        category_map == get_surrogate_key_map(s.rows["dim_category"])
    IN  [s EXCEPT !.bfa = @ \cup BridgeRows(lk.fa, film_map, actor_map),
                  !.bfc = @ \cup BridgeRows(lk.fc, film_map, category_map)]

sync_bridge_tables(s, lk) ==
    LET film_map     == get_surrogate_key_map(s.rows["dim_film"])
        actor_map    == get_surrogate_key_map(s.rows["dim_actor"])
        category_map == get_surrogate_key_map(s.rows["dim_category"])
    IN  [s EXCEPT !.bfa = BridgeRows(lk.fa, film_map, actor_map),
                  !.bfc = BridgeRows(lk.fc, film_map, category_map)]

\* ---- full_load: the clear step ----

\* nothing is deleted
ClearTarget_Nothing(s) == s

\* the two fact tables are not deleted
ClearTarget_DimsOnly(s) ==
    [s EXCEPT !.rows = [t \in Tables |-> IF t \in Dims THEN {} ELSE s.rows[t]],
              !.sync = << >>]

ClearTarget(s) ==
    [s EXCEPT !.rows = [t \in Tables |-> {}], !.sync = << >>]

\* the rows of the two bridge tables, tagged with their table
BridgeOf(s) == ({"bfa"} \X s.bfa) \cup ({"bfc"} \X s.bfc)

\* ---- session ----

commit(d, s)   == s

\* the flushed changes survive the rollback
rollback_Keep(d, s) == s

rollback(d, s) == d

\* ---- validate_data ----

RECURSIVE Sum(_, _)
\* func.sum over a column: f[x] summed over the rows S
Sum(f, S) == IF S = {} THEN 0
             ELSE LET x == CHOOSE y \in S : TRUE IN f[x] + Sum(f, S \ {x})

Abs(x) == IF x < 0 THEN -x ELSE x

\* the count checks in the order of the list `checks`
Checks == << "dim_film", "dim_customer", "dim_store", "dim_actor",
             "dim_category", "fact_rental", "fact_payment" >>

\* the target count is compared with 0 instead of the source count
CountStatus_Empty(src_count, tgt_count) ==
    IF tgt_count = 0 THEN "OK" ELSE "FAIL"

\* status = "OK" if src_count == tgt_count else "FAIL"
CountStatus(src_count, tgt_count) ==
    IF src_count = tgt_count THEN "OK" ELSE "FAIL"

\* rev_status = "OK" if diff < 0.01 else "FAIL"; amounts are in hundredths
RevenueStatus(src_rev, tgt_rev) ==
    IF Abs(src_rev - tgt_rev) < Tolerance THEN "OK" ELSE "FAIL"

\* the checks stop at the first FAIL: later metrics are not reported
validate_data_StopAtFirst(source, s) ==
    LET status(t) == CountStatus(Cardinality(DOMAIN source[t]),
                                 Cardinality({ r.key : r \in s.rows[t] }))
        failed == { k \in 1..Len(Checks) : status(Checks[k]) = "FAIL" }
        first  == IF failed = {} THEN Len(Checks)
                  ELSE CHOOSE k \in failed : \A j \in failed : k <= j
    IN  [ counts  |-> [t \in { Checks[k] : k \in 1..first } |-> status(t)],
          revenue |-> IF failed = {} THEN "OK" ELSE "none",
          result  |-> IF failed = {} THEN "PASSED" ELSE "FAILED" ]

\* what validate_data prints for source `source` and target s
validate_data(source, s) ==
    LET counts == [t \in Tables |->
                     CountStatus(Cardinality(DOMAIN source[t]),
                                 Cardinality({ r.key : r \in s.rows[t] }))]
        src_rev == Sum([i \in DOMAIN source["fact_payment"] |->
                           source["fact_payment"][i].attr],
                       DOMAIN source["fact_payment"])
        amount  == [r \in s.rows["fact_payment"] |-> r.attr]
        tgt_rev == Sum(amount, s.rows["fact_payment"])
        revenue == RevenueStatus(src_rev, tgt_rev)
        issues_found == (\E k \in 1..Len(Checks) : counts[Checks[k]] = "FAIL")
                        \/ revenue = "FAIL"
    IN  [ counts  |-> counts,
          revenue |-> revenue,
          result  |-> IF issues_found THEN "FAILED" ELSE "PASSED" ]

\* ---- positions of a run ----

Idle == [kind |-> "none", step |-> 0, phase |-> "idle"]

\* after the table sync at position k returns, the next call of the sequence
After(k) ==
    IF k + 1 = Len(SyncOrder)
    THEN [pc EXCEPT !.step = k + 1, !.phase = "bridge"]
    ELSE [pc EXCEPT !.step = k + 1, !.phase = "extract"]

SrcRow(t, a, f, c, s) ==
    IF t \in Dims THEN [lu |-> now, attr |-> a]
    ELSE [lu |-> now, attr |-> a,
          film_id     |-> IF t = "fact_rental" THEN f ELSE NULL,
          customer_id |-> c,
          store_id    |-> IF t = "fact_payment" THEN s ELSE NULL]

\* the sample database: one row in every table, one link of each kind
SeedSource == [t \in Tables |-> [i \in {1} |-> SrcRow(t, 0, 1, 1, 1)]]
SeedLinks  == [fa |-> {<< 1, 1 >>}, fc |-> {<< 1, 1 >>}]

NoRun == [outcome |-> "none", step |-> 0, phase |-> "idle", dropped |-> FALSE]

\* the processes of the side-by-side scenario
Runs == {1, 2}

\* a process that has not called incremental_load yet
NewRun == [ st |-> "new", step |-> 0, phase |-> "idle", ch |-> << >>,
            todo |-> << >>, maps |-> KeyMaps(EmptyStore), pend |-> {},
            tx |-> EmptyStore, ins |-> {} ]

\* load_dim_date has not been called
NoCalendar == [ phase |-> "idle", rows |-> {}, existing_keys |-> {},
                batch |-> {}, current_date |-> << 0, 0, 0 >> ]

\* validate_data has not just returned
NoReport == [ counts |-> << >>, revenue |-> "none", result |-> "none" ]

\* hist.writes: source-side writes so far
\* hist.last  : how the run that has just ended ended, and where ("none" while a
\*              run is in progress); dropped: its bridge rebuild removed a bridge
\*              row that was committed before it
\* hist.chain : outcome of the most recent finished incremental_load, provided
\*              the source has not changed since that run started, else "none";
\*              "recovered" is a success that follows a failure in this way;
\*              "full" when that run was a full_load that completed
\* hist.clean : the source has not changed since the run in progress started
\* hist.stale : when the full_load in progress (or just finished) started, the
\*              target held a row whose natural key the source does not have
\* hist.db0   : the committed target when the incremental_load started; a run
\*              that follows a failed incremental_load over an unchanged
\*              source keeps the value of the failed run
\* hist.pre   : the committed target when the table sync in progress started
Init ==
    /\ now = 1
    /\ \/ src = [t \in Tables |-> << >>] /\ links = [fa |-> {}, fc |-> {}]
       \/ src = SeedSource /\ links = SeedLinks
    /\ db = EmptyStore
    /\ tx = EmptyStore
    /\ pc = Idle
    /\ changes = << >>
    /\ hist = [writes |-> 0, last |-> NoRun, chain |-> "none", clean |-> FALSE,
               stale |-> FALSE, db0 |-> EmptyStore, pre |-> EmptyStore]
    /\ runs = [r \in Runs |-> NewRun]
    /\ lock = 0
    /\ cal = NoCalendar
    /\ report = NoReport

\* ---- the operational system and the clock ----

Tick ==
    /\ now < MaxClock
    /\ now' = now + 1
    /\ UNCHANGED << src, links, db, tx, pc, changes, hist >>
    /\ UNCHANGED aside

Disturbed == [hist EXCEPT !.writes = @ + 1, !.chain = "none", !.clean = FALSE,
                          !.stale = FALSE, !.db0 = EmptyStore]

\* INSERT or UPDATE of a source row: last_update = CURRENT_TIMESTAMP
SrcWrite ==
    /\ hist.writes < MaxWrites
    /\ \E t \in Tables, i \in Ids, f, c, s \in Ids :
          /\ t \in Dims => f = 1 /\ c = 1 /\ s = 1
          /\ t = "fact_rental" => s = 1
          /\ t = "fact_payment" => f = 1
          /\ src' = [src EXCEPT ![t] =
                [j \in DOMAIN src[t] \cup {i} |->
                    IF j = i THEN SrcRow(t, hist.writes + 1, f, c, s) ELSE src[t][j]]]
    /\ hist' = Disturbed
    /\ UNCHANGED << now, links, db, tx, pc, changes >>
    /\ UNCHANGED aside

SrcDelete ==
    /\ hist.writes < MaxWrites
    /\ \E t \in Tables : \E i \in DOMAIN src[t] :
          src' = [src EXCEPT ![t] = [j \in DOMAIN src[t] \ {i} |-> src[t][j]]]
    /\ hist' = Disturbed
    /\ UNCHANGED << now, links, db, tx, pc, changes >>
    /\ UNCHANGED aside

LinkWrite ==
    /\ hist.writes < MaxWrites
    /\ \E f, o \in Ids :
          \/ links' = [links EXCEPT !.fa = @ \cup {<< f, o >>}] /\ << f, o >> \notin links.fa
          \/ links' = [links EXCEPT !.fc = @ \cup {<< f, o >>}] /\ << f, o >> \notin links.fc
          \/ links' = [links EXCEPT !.fa = @ \ {<< f, o >>}] /\ << f, o >> \in links.fa
          \/ links' = [links EXCEPT !.fc = @ \ {<< f, o >>}] /\ << f, o >> \in links.fc
    /\ hist' = Disturbed
    /\ UNCHANGED << now, src, db, tx, pc, changes >>
    /\ UNCHANGED aside

\* ---- the pipeline ----

incremental_load ==
    /\ pc = Idle
    /\ pc' = [kind |-> "incr", step |-> 1, phase |-> "extract"]
    /\ hist' = [hist EXCEPT !.last = NoRun, !.clean = TRUE, !.stale = FALSE,
                            !.db0 = IF hist.chain = "failed" THEN @ ELSE db]
    /\ UNCHANGED << now, src, links, db, tx, changes >>
    /\ UNCHANGED aside

full_load ==
    /\ pc = Idle
    /\ pc' = [kind |-> "full", step |-> 0, phase |-> "clear"]
    /\ hist' = [hist EXCEPT !.last = NoRun, !.chain = "none", !.clean = TRUE,
                            !.stale = \E t \in Tables : \E r \in db.rows[t] :
                                          r.id \notin DOMAIN src[t],
                            !.db0 = EmptyStore]
    /\ UNCHANGED << now, src, links, db, tx, changes >>
    /\ UNCHANGED aside

\* the deletes are flushed and not committed
Clear_NoCommit ==
    /\ pc.phase = "clear"
    /\ tx' = ClearTarget(tx)
    /\ pc' = [pc EXCEPT !.step = 1, !.phase = "extract"]
    /\ UNCHANGED << now, src, links, db, changes, hist >>
    /\ UNCHANGED aside

\* full_load: delete facts, dimensions and SyncState, commit
Clear ==
    /\ pc.phase = "clear"
    /\ tx' = ClearTarget(tx)
    /\ db' = commit(db, tx')
    /\ pc' = [pc EXCEPT !.step = 1, !.phase = "extract"]
    /\ UNCHANGED << now, src, links, changes, hist >>
    /\ UNCHANGED aside

\* sync_dim_* / sync_fact_*: read the watermark, query the source
Extract ==
    /\ pc.phase = "extract"
    /\ LET t  == SyncOrder[pc.step]
           ch == ChangedRows(src, t, last_sync(tx, t))
       IN  IF NoChanges(ch)
           THEN /\ pc' = After(pc.step)          \* if not changes: return
                /\ changes' = << >>
                /\ hist' = hist
           ELSE /\ pc' = [pc EXCEPT !.phase = "upsert"]
                /\ changes' = ch
                /\ hist' = [hist EXCEPT !.pre = db]
    /\ UNCHANGED << now, src, links, db, tx >>
    /\ UNCHANGED aside

\* the upsert loop commits as it goes
UpsertRows_Autocommit ==
    /\ pc.phase = "upsert"
    /\ \E order \in Perms(DOMAIN changes) :
          tx' = Upsert(tx, SyncOrder[pc.step], changes, order, now)
    /\ db' = tx'
    /\ pc' = [pc EXCEPT !.phase = "commit"]
    /\ UNCHANGED << now, src, links, changes, hist >>
    /\ UNCHANGED aside

\* sync_dim_* / sync_fact_*: the upsert loop, in the order the query returned
UpsertRows ==
    /\ pc.phase = "upsert"
    /\ \E order \in Perms(DOMAIN changes) :
          tx' = Upsert(tx, SyncOrder[pc.step], changes, order, now)
    /\ pc' = [pc EXCEPT !.phase = "commit"]
    /\ UNCHANGED << now, src, links, db, changes, hist >>
    /\ UNCHANGED aside

\* sync_dim_* / sync_fact_*: update_sync_state(now) and commit
Commit ==
    /\ pc.phase = "commit"
    /\ tx' = update_sync_state(tx, SyncOrder[pc.step], now)
    /\ db' = commit(db, tx')
    /\ pc' = After(pc.step)
    /\ changes' = << >>
    /\ hist' = [hist EXCEPT !.pre = EmptyStore]
    /\ UNCHANGED << now, src, links >>
    /\ UNCHANGED aside

Finished(outcome) ==
    [hist EXCEPT !.last  = [outcome |-> outcome, step |-> pc.step, phase |-> pc.phase,
                            dropped |-> outcome = "ok" /\ BridgeOf(db) # BridgeOf(db) \cap
                                            BridgeOf(sync_bridge_tables(tx, links))],
                 !.chain = IF ~hist.clean THEN "none"
                           ELSE IF pc.kind = "full"
                           THEN (IF outcome = "ok" THEN "full" ELSE "none")
                           ELSE IF outcome = "failed" THEN "failed"
                           ELSE IF hist.chain = "failed" THEN "recovered"
                           ELSE "ok",
                 !.clean = FALSE,
                 !.db0   = IF hist.clean THEN @ ELSE EmptyStore,
                 !.pre   = EmptyStore]

\* sync_bridge_tables, then the end of the run
Bridge ==
    /\ pc.phase = "bridge"
    /\ tx' = sync_bridge_tables(tx, links)
    /\ db' = commit(db, tx')
    /\ pc' = Idle
    /\ hist' = Finished("ok")
    /\ UNCHANGED << now, src, links, changes >>
    /\ UNCHANGED aside

\* an exception inside the try block: except -> rollback, finally -> close
Fail ==
    /\ pc.kind # "none"
    /\ tx' = rollback(db, tx)
    /\ pc' = Idle
    /\ changes' = << >>
    /\ hist' = Finished("failed")
    /\ UNCHANGED << now, src, links, db >>
    /\ UNCHANGED aside

Next ==
    \/ Tick
    \/ SrcWrite
    \/ SrcDelete
    \/ LinkWrite
    \/ incremental_load
    \/ full_load
    \/ Clear
    \/ Extract
    \/ UpsertRows
    \/ Commit
    \/ Bridge
    \/ Fail

Spec == Init /\ [][Next]_vars

\* ---------------------------------------------------------------------------
\* Properties
\* ---------------------------------------------------------------------------

TableOf(k) == SyncOrder[k]

RowsFor(s, t, i) == { r \in s.rows[t] : r.id = i }

IdsIn(s, t) == { r.id : r \in s.rows[t] }

KeysIn(s, t) == { r.key : r \in s.rows[t] }

\* the step that ends a run with an exception / with success
FailStep == pc.kind # "none" /\ hist'.last.outcome = "failed"
DoneStep == pc.phase = "bridge" /\ pc' = Idle /\ hist'.last.outcome = "ok"

UniqueNaturalKeys(s) ==
    \A t \in Tables : \A r1, r2 \in s.rows[t] : r1.id = r2.id => r1 = r2

UniqueSurrogateKeys(s) ==
    \A t \in Tables : \A r1, r2 \in s.rows[t] : r1.key = r2.key => r1 = r2

\* every row of the target keeps its natural key and its surrogate key
KeysStable ==
    \A t \in Tables : \A r \in db.rows[t] :
        \E q \in db'.rows[t] : q.id = r.id /\ q.key = r.key

\* C1: Upsert uniqueness.  In every table, committed or in the open session, no
\* two rows carry the same natural key (nor the same surrogate key), and no
\* step other than the clear step of full_load changes the surrogate key that a
\* natural key has: a sync run again updates the row in place.
C1_UpsertUniqueness ==
    /\ [](UniqueNaturalKeys(db) /\ UniqueNaturalKeys(tx))
    /\ [](UniqueSurrogateKeys(db) /\ UniqueSurrogateKeys(tx))
    /\ [][pc.phase # "clear" => KeysStable]_vars

\* C1 witness: a later sync has updated, in place and under its old surrogate
\* key, a row that an earlier sync committed, next to a row it inserted.
C1_Witness ==
    /\ pc.kind = "incr"
    /\ pc.phase = "commit"
    /\ \E r \in db.rows[TableOf(pc.step)], q \in tx.rows[TableOf(pc.step)] :
          q.id = r.id /\ q.key = r.key /\ q.attr # r.attr

\* the run in progress is an incremental_load that follows a completed
\* incremental_load, and the source has not changed since that one started
SecondRun == pc.kind = "incr" /\ hist.chain \in {"ok", "recovered"} /\ hist.clean

\* C2: Idempotence.  No step of a second incremental_load over an unchanged
\* source changes the committed target (rows, bridges, SyncState), and none
\* of its extractions returns a row.
C2_Idempotence ==
    [][SecondRun => db' = db /\ pc'.phase # "upsert" /\ changes' = << >>]_vars

\* C2 witness: the second run has passed all seven table syncs over a target
\* that holds rows in every table and in both bridges.
C2_Witness ==
    /\ SecondRun
    /\ pc.phase = "bridge"
    /\ \A t \in Tables : db.rows[t] # {} /\ t \in DOMAIN db.sync
    /\ db.bfa # {} /\ db.bfc # {}

TableChanged(t) ==
    db'.rows[t] # db.rows[t] \/ last_sync(db', t) # last_sync(db, t)

\* C3: Atomic watermark advance.  A committed row never carries a stamp later
\* than its table's watermark, and a step changes the committed rows of a
\* table exactly when it changes the table's watermark.  Outside the clear
\* step such a step is the commit of that table's sync: the watermark becomes
\* the clock's reading, later than before, and every row the call extracted
\* is committed with the content extracted, every other row untouched.
C3_AtomicWatermark ==
    /\ [](\A t \in Tables : \A r \in db.rows[t] : r.last_update <= last_sync(db, t))
    /\ [][\A t \in Tables :
            /\ (db'.rows[t] # db.rows[t]) <=> (last_sync(db', t) # last_sync(db, t))
            /\ (TableChanged(t) /\ pc.phase # "clear") =>
                  /\ pc.phase = "commit" /\ t = TableOf(pc.step)
                  /\ last_sync(db', t) = now /\ last_sync(db, t) < now
                  /\ \A i \in DOMAIN changes :
                        \E r \in db'.rows[t] : r.id = i /\ r.attr = changes[i].attr
                  /\ \A r \in db.rows[t] : r.id \notin DOMAIN changes => r \in db'.rows[t]
                  /\ IdsIn(db', t) = IdsIn(db, t) \cup DOMAIN changes
         ]_vars

\* C3 witness: a sync that extracted two rows has committed both together
\* with its watermark, in a run that is still in progress.
C3_Witness ==
    /\ pc.kind # "none"
    /\ pc.step > 1
    /\ LET t == TableOf(pc.step - 1) IN
          /\ t \in DOMAIN db.sync
          /\ Cardinality(db.rows[t]) = 2
          /\ \A r \in db.rows[t] : r.last_update = db.sync[t]

\* C4: No-op on empty extraction.  A sync goes on to its upsert loop only with
\* a non-empty extraction; when no source row of the table is later than the
\* watermark, the sync's step leaves the committed target and the session
\* unchanged (the SyncState row stays as it is, absent if it was absent) and
\* the run is at the next call of the sequence.
C4_NoOpOnEmpty ==
    /\ [](pc.phase \in {"upsert", "commit"} => DOMAIN changes # {})
    /\ [][(/\ pc.phase = "extract"
           /\ \A i \in DOMAIN src[TableOf(pc.step)] :
                 src[TableOf(pc.step)][i].lu <= last_sync(db, TableOf(pc.step))
           /\ pc' # pc /\ ~FailStep)
          => db' = db /\ tx' = tx /\ pc' = After(pc.step)]_vars

\* C4 witness: in an incremental_load the first sync has returned and dim_film
\* still has no SyncState row and no rows, the source having no film.
C4_Witness ==
    /\ pc.kind = "incr"
    /\ pc.step = 2
    /\ "dim_film" \notin DOMAIN db.sync
    /\ db.rows["dim_film"] = {}
    /\ tx = db
    /\ \E t \in Tables : t \in DOMAIN db.sync

\* C5: Watermark skip hazard.  A source row whose last_update is not later than
\* its table's committed watermark is not extracted by any step outside
\* full_load for as long as it is not written again: what the target holds
\* under its natural key stays as it is.
C5_SkippedForever ==
    [][\A t \in Tables : \A i \in DOMAIN src[t] :
          (/\ pc.kind # "full"
           /\ t \in DOMAIN db.sync
           /\ src[t][i].lu <= db.sync[t]
           /\ i \in DOMAIN src'[t]
           /\ src'[t][i] = src[t][i])
          => RowsFor(db', t, i) = RowsFor(db, t, i)]_vars

\* C5 witness: between runs, a source row stamped strictly before its table's
\* watermark has no row in the target.
C5_Witness ==
    /\ pc = Idle
    /\ hist.last.outcome = "ok"
    /\ \E t \in Tables : \E i \in DOMAIN src[t] :
          /\ t \in DOMAIN db.sync
          /\ src[t][i].lu < db.sync[t]
          /\ RowsFor(db, t, i) = {}

BridgeRefsResolve(s) ==
    /\ \A p \in s.bfa : p[1] \in KeysIn(s, "dim_film") /\ p[2] \in KeysIn(s, "dim_actor")
    /\ \A p \in s.bfc : p[1] \in KeysIn(s, "dim_film") /\ p[2] \in KeysIn(s, "dim_category")

\* C6: Bridge referential invariant.  In every committed state of the target,
\* every bridge row references surrogate keys present in dim_film and in
\* dim_actor / dim_category.  (Violated: the clear step of full_load empties
\* the dimensions and leaves the bridge tables as they were.)
C6_BridgeReferential == BridgeRefsResolve(db)

\* source associations whose two natural keys are both in the target dimension
Resolvable(lk, s, t) ==
    { l \in lk : l[1] \in IdsIn(s, "dim_film") /\ l[2] \in IdsIn(s, t) }

\* C7: Bridge correctness after rebuild.  In the state sync_bridge_tables
\* commits, every bridge row references existing dimension rows and each
\* bridge holds as many rows as the source has associations with both
\* endpoints in the target dimensions.
C7_BridgeCorrect ==
    [][DoneStep =>
          /\ BridgeRefsResolve(db')
          /\ Cardinality(db'.bfa) = Cardinality(Resolvable(links.fa, db', "dim_actor"))
          /\ Cardinality(db'.bfc) = Cardinality(Resolvable(links.fc, db', "dim_category"))
      ]_vars

\* C7 witness: a completed rebuild, over a source unchanged since the run
\* started, has loaded one film-actor link and dropped another whose actor is
\* not in dim_actor.
C7_Witness ==
    /\ pc = Idle
    /\ hist.last.outcome = "ok"
    /\ hist.chain = "ok"
    /\ db.bfa # {}
    /\ \E l \in links.fa : l[2] \notin IdsIn(db, "dim_actor")

\* C8: Partial-progress semantics.  The step in which a run raises ends the
\* run (no later table sync is called), leaves the session rolled back to the
\* committed target, and leaves the committed target, with everything the
\* earlier table syncs of the run committed, as it is.
C8_PartialProgress ==
    [][FailStep => pc' = Idle /\ tx' = db /\ db' = db /\ changes' = << >>]_vars

\* C8 witness: an incremental_load has failed at its k-th call, k > 1, and the
\* committed target holds a watermark that an earlier call of that run wrote.
C8_Witness ==
    /\ pc = Idle
    /\ hist.last.outcome = "failed"
    /\ hist.last.step > 1
    /\ hist.chain = "failed"
    /\ \E k \in 1..(hist.last.step - 1) :
          last_sync(db, TableOf(k)) # last_sync(hist.db0, TableOf(k))

\* C9: No partial table state on failure.  When a table sync fails after its
\* extraction, the committed rows and watermark of its table, and what the
\* session sees of them, are what they were when the sync started; when it
\* fails in its extraction nothing committed changes.
C9_NoPartialTable ==
    [][FailStep =>
          /\ pc.phase \in {"upsert", "commit"} =>
                /\ db'.rows[TableOf(pc.step)] = hist.pre.rows[TableOf(pc.step)]
                /\ tx'.rows[TableOf(pc.step)] = hist.pre.rows[TableOf(pc.step)]
                /\ db'.sync = hist.pre.sync
                /\ tx'.sync = hist.pre.sync
          /\ pc.phase = "extract" => db' = db /\ tx' = db
      ]_vars

\* C9 witness: a run has failed in a fact sync after that sync had flushed its
\* upserts, and the fact table is as empty as before.
C9_Witness ==
    /\ pc = Idle
    /\ hist.last.outcome = "failed"
    /\ hist.last.phase = "commit"
    /\ hist.last.step > 5
    /\ db.rows[TableOf(hist.last.step)] = {}
    /\ tx = db

\* ---- the target read by natural keys ----

\* natural key of the row of table t whose surrogate key is k
NatId(s, t, k) ==
    IF k \in KeysIn(s, t) THEN (CHOOSE r \in s.rows[t] : r.key = k).id ELSE NULL

ViewRow(s, t, r) ==
    IF t \in Dims
    THEN [ id |-> r.id, attr |-> r.attr ]
    ELSE [ id |-> r.id, attr |-> r.attr,
           film     |-> NatId(s, "dim_film", r.film_key),
           customer |-> NatId(s, "dim_customer", r.customer_key),
           store    |-> NatId(s, "dim_store", r.store_key) ]

\* rows per natural key with their content and the natural keys they refer
\* to, the tables that have a SyncState row, the bridges as natural-key pairs
View(s) ==
    [ rows   |-> [t \in Tables |-> { ViewRow(s, t, r) : r \in s.rows[t] }],
      synced |-> DOMAIN s.sync,
      bfa    |-> { << NatId(s, "dim_film", p[1]), NatId(s, "dim_actor", p[2]) >> : p \in s.bfa },
      bfc    |-> { << NatId(s, "dim_film", p[1]), NatId(s, "dim_category", p[2]) >> : p \in s.bfc } ]

\* What one incremental_load without failure makes of target d0 over a source
\* that does not change: per table the rows later than d0's watermark are
\* upserted by natural key, new fact rows (and updated payments) refer to the
\* dimension rows then present, and the bridges hold the resolvable links.
Pending(d0, source, t) ==
    { i \in DOMAIN source[t] : source[t][i].lu > last_sync(d0, t) }

IdsAfter(d0, source, t) == IdsIn(d0, t) \cup Pending(d0, source, t)

RefAfter(d0, source, t, i) == IF i \in IdsAfter(d0, source, t) THEN i ELSE NULL

OldView(d0, t, i) == ViewRow(d0, t, CHOOSE r \in d0.rows[t] : r.id = i)

ExpectedRow(d0, source, t, i) ==
    IF i \notin Pending(d0, source, t) THEN OldView(d0, t, i)
    ELSE IF t \in Dims THEN [ id |-> i, attr |-> source[t][i].attr ]
    ELSE IF t = "fact_payment"
    THEN [ id |-> i, attr |-> source[t][i].attr,
           film     |-> NULL,
           customer |-> RefAfter(d0, source, "dim_customer", source[t][i].customer_id),
           store    |-> RefAfter(d0, source, "dim_store", source[t][i].store_id) ]
    ELSE IF i \in IdsIn(d0, t)
    THEN [ OldView(d0, t, i) EXCEPT !.attr = source[t][i].attr ]
    ELSE [ id |-> i, attr |-> source[t][i].attr,
           film     |-> RefAfter(d0, source, "dim_film", source[t][i].film_id),
           customer |-> RefAfter(d0, source, "dim_customer", source[t][i].customer_id),
           store    |-> NULL ]

ExpectedView(d0, source, lk) ==
    [ rows   |-> [t \in Tables |->
                    { ExpectedRow(d0, source, t, i) : i \in IdsAfter(d0, source, t) }],
      synced |-> DOMAIN d0.sync \cup { t \in Tables : Pending(d0, source, t) # {} },
      bfa    |-> { l \in lk.fa : l[1] \in IdsAfter(d0, source, "dim_film")
                                 /\ l[2] \in IdsAfter(d0, source, "dim_actor") },
      bfc    |-> { l \in lk.fc : l[1] \in IdsAfter(d0, source, "dim_film")
                                 /\ l[2] \in IdsAfter(d0, source, "dim_category") } ]

\* C10: Retry by re-run.  Over a source that has not changed since the first
\* of them started, incremental_load runs that failed followed by one that
\* completes leave the target, read by natural keys, as the one failure-free
\* incremental_load leaves it (first conjunct: the same expected view is met
\* by the failure-free run and by the re-run).  When the first run fails at
\* its k-th call, the tables of the k-th and later calls have the rows and
\* the watermark they had when it started.
C10_RetryByRerun ==
    /\ [](pc = Idle /\ hist.chain \in {"ok", "recovered"}
            => View(db) = ExpectedView(hist.db0, src, links))
    /\ [][(FailStep /\ pc.kind = "incr" /\ hist.clean /\ hist.chain # "failed"
           /\ pc.step < Len(SyncOrder))
          => \A k \in pc.step..(Len(SyncOrder) - 1) :
                /\ last_sync(db', TableOf(k)) = last_sync(hist.db0, TableOf(k))
                /\ db'.rows[TableOf(k)] = hist.db0.rows[TableOf(k)]
         ]_vars

\* C10 witness: a re-run has completed after a failed run, dim_film has
\* changed since the failed run started, and every table now has rows and a
\* watermark.
C10_Witness ==
    /\ pc = Idle
    /\ hist.chain = "recovered"
    /\ hist.db0.rows["dim_film"] # db.rows["dim_film"]
    /\ \A t \in Tables : db.rows[t] # {} /\ t \in DOMAIN db.sync
    /\ db.bfa # {}

\* position of table t in the sequence of calls
StepOf(t) == CHOOSE k \in 1..Len(SyncOrder) : SyncOrder[k] = t

\* the table sync at the run's position returns in this step
Returns ==
    \/ pc.phase = "commit"
    \/ pc.phase = "extract" /\ NoChanges(ChangedRows(src, TableOf(pc.step),
                                                     last_sync(tx, TableOf(pc.step))))

\* C11: Orchestration order.  A run (full_load after its clear step, or
\* incremental_load) starts at the first call of the sequence and moves to the
\* next call exactly when the sync it is in returns; whenever it is in a fact
\* sync every dimension sync lies behind it, whenever it is in the bridge
\* rebuild every dimension and fact sync lies behind it, and a step touches
\* the rows or the watermark of a table, in the session or committed, only
\* while the run is in that table's sync (the bridges only in the rebuild).
C11_OrchestrationOrder ==
    /\ [](pc.phase \in {"extract", "upsert", "commit"} =>
            /\ pc.step \in 1..(Len(SyncOrder) - 1)
            /\ TableOf(pc.step) \in Facts => \A d \in Dims : StepOf(d) < pc.step)
    /\ [](pc.phase = "bridge" => \A t \in Tables : StepOf(t) < pc.step)
    /\ [][(pc.kind = "none" /\ pc'.kind = "incr") \/ (pc.phase = "clear" /\ pc' # pc)
            => pc'.kind = "none" \/ pc'.step = 1]_vars
    /\ [][pc.kind # "none" /\ pc.phase # "clear" /\ pc'.kind # "none" /\ pc' # pc
            => /\ pc'.kind = pc.kind
               /\ pc'.step = IF Returns THEN pc.step + 1 ELSE pc.step]_vars
    /\ [][pc.phase # "clear" =>
            /\ \A t \in Tables :
                  (tx'.rows[t] # tx.rows[t] \/ db'.rows[t] # db.rows[t]
                   \/ last_sync(tx', t) # last_sync(tx, t)
                   \/ last_sync(db', t) # last_sync(db, t))
                  => pc.kind # "none" /\ pc.step = StepOf(t)
            /\ (<< db'.bfa, db'.bfc, tx'.bfa, tx'.bfc >> # << db.bfa, db.bfc, tx.bfa, tx.bfc >>)
                  => pc.phase = "bridge"]_vars

\* C11 witness: a full_load stands at the bridge rebuild, having committed
\* rows and a watermark for every dimension and fact table.
C11_Witness ==
    /\ pc.kind = "full"
    /\ pc.phase = "bridge"
    /\ \A t \in Tables : db.rows[t] # {} /\ t \in DOMAIN db.sync

\* C12: Full reload equivalence.  When a full_load has completed and the
\* source has not changed since it started, validate_data reports OK for each
\* of the seven counts and for the revenue sum, and PASSED overall, whatever
\* the target held before the reload.
C12_FullReloadEquivalence ==
    (pc = Idle /\ hist.chain = "full") =>
        LET rep == validate_data(src, db) IN
        /\ \A t \in Tables : rep.counts[t] = "OK"
        /\ rep.revenue = "OK"
        /\ rep.result = "PASSED"
        /\ \A t \in Tables : IdsIn(db, t) = DOMAIN src[t]
        /\ \A r \in db.rows["fact_payment"] : r.attr = src["fact_payment"][r.id].attr

\* C12 witness: a full_load has completed over a target that held a row of a
\* natural key the source had lost, and has reloaded customers and payments.
C12_Witness ==
    /\ pc = Idle
    /\ hist.chain = "full"
    /\ hist.stale
    /\ db.rows["dim_customer"] # {}
    /\ db.rows["fact_payment"] # {}

\* the step in which the sync of fact table t commits
FactCommit(t) == pc.phase = "commit" /\ TableOf(pc.step) = t /\ pc'.step = pc.step + 1

\* row r, extracted from source row s, carries the keys that s's natural keys
\* have in the key maps of store d
KeysResolved(t, r, s, d) ==
    LET maps == KeyMaps(d) IN
    /\ r.customer_key = Lookup(maps.cust, s.customer_id)
    /\ t = "fact_rental"  => r.film_key  = Lookup(maps.film, s.film_id)
    /\ t = "fact_payment" => r.store_key = Lookup(maps.store, s.store_id)

\* C13: Fact foreign keys reflect this run.  When a fact sync commits, every
\* fact row it inserted or updated carries, for each dimension it references,
\* the surrogate key that the source row's natural key has in the key map
\* built in this call.  (Violated: the update branch of sync_fact_rental
\* leaves film_key and customer_key as an earlier run stored them.)
C13_FactKeysThisRun ==
    [][\A t \in Facts : FactCommit(t) =>
            \A i \in DOMAIN changes : \A r \in RowsFor(db', t, i) :
                KeysResolved(t, r, changes[i], db')]_vars

\* what does hold: rows inserted by either fact sync, and rows updated by
\* sync_fact_payment, carry the keys of this call's key maps
C13_InsertedOrPayment ==
    [][\A t \in Facts : FactCommit(t) =>
            \A i \in DOMAIN changes : \A r \in RowsFor(db', t, i) :
                (t = "fact_payment" \/ RowsFor(db, t, i) = {})
                    => KeysResolved(t, r, changes[i], db')]_vars

\* source row s of fact table t refers to a natural key that the key maps of
\* store d do not hold
Unresolved(t, s, d) ==
    LET maps == KeyMaps(d) IN
    \/ Lookup(maps.cust, s.customer_id) = NULL
    \/ t = "fact_rental"  /\ Lookup(maps.film, s.film_id) = NULL
    \/ t = "fact_payment" /\ Lookup(maps.store, s.store_id) = NULL

\* row r stores NULL for every reference of s that the key maps of d lack
NullWhereUnresolved(t, r, s, d) ==
    LET maps == KeyMaps(d) IN
    /\ Lookup(maps.cust, s.customer_id) = NULL => r.customer_key = NULL
    /\ (t = "fact_rental"  /\ Lookup(maps.film, s.film_id) = NULL)   => r.film_key = NULL
    /\ (t = "fact_payment" /\ Lookup(maps.store, s.store_id) = NULL) => r.store_key = NULL

\* a fact sync that has extracted rows goes on to commit them unless the run
\* is ended from outside: the unresolved reference raises nothing
FactSyncProceeds ==
    \A t \in Facts :
        (pc.phase \in {"upsert", "commit"} /\ TableOf(pc.step) = t /\ pc' # pc /\ ~FailStep)
            => \/ pc.phase = "upsert" /\ pc' = [pc EXCEPT !.phase = "commit"]
               \/ FactCommit(t)

\* C14: Unresolved foreign key is not an error.  When a fact sync commits,
\* every extracted row that refers to a natural key absent from this call's
\* key maps has exactly one fact row, which stores NULL for that reference,
\* and the fact table's watermark is committed at the clock's reading.
\* (Violated: a rental updated by sync_fact_rental keeps the key stored
\* earlier instead of NULL.)
C14_UnresolvedIsNull ==
    [][/\ FactSyncProceeds
       /\ \A t \in Facts : FactCommit(t) =>
            /\ last_sync(db', t) = now
            /\ \A i \in DOMAIN changes : Unresolved(t, changes[i], db') =>
                  /\ Cardinality(RowsFor(db', t, i)) = 1
                  /\ \A r \in RowsFor(db', t, i) :
                        NullWhereUnresolved(t, r, changes[i], db')]_vars

\* what does hold: the same, with NULL stored by the insert branches and by
\* the update branch of sync_fact_payment
C14_ExceptRentalUpdate ==
    [][/\ FactSyncProceeds
       /\ \A t \in Facts : FactCommit(t) =>
            /\ last_sync(db', t) = now
            /\ \A i \in DOMAIN changes : Unresolved(t, changes[i], db') =>
                  /\ Cardinality(RowsFor(db', t, i)) = 1
                  /\ \A r \in RowsFor(db', t, i) :
                        (t = "fact_payment" \/ RowsFor(db, t, i) = {})
                            => NullWhereUnresolved(t, r, changes[i], db')]_vars

\* the run is an incremental_load in sync_dim_customer, dim_customer has no
\* SyncState row, and the source holds exactly one customer
FirstCustomerSync ==
    /\ pc.kind = "incr"
    /\ TableOf(pc.step) = "dim_customer"
    /\ "dim_customer" \notin DOMAIN db.sync
    /\ Cardinality(DOMAIN src["dim_customer"]) = 1

\* C15: First-sync scenario and SyncState creation.  With no SyncState row
\* for dim_customer and one source customer stamped T1, sync_dim_customer
\* extracts that customer, and its commit leaves exactly one DimCustomer row,
\* with the customer's natural key and content, and a SyncState row for
\* dim_customer holding the clock's reading, which is not before T1.  A
\* SyncState row appears only in the commit of its table's sync, and a table
\* without SyncState row has no rows.
C15_FirstSync ==
    /\ [][(FirstCustomerSync /\ pc.phase = "extract" /\ pc' # pc /\ ~FailStep)
            => pc'.phase = "upsert" /\ changes' = src["dim_customer"]]_vars
    /\ [][(FirstCustomerSync /\ pc.phase = "commit" /\ changes = src["dim_customer"]
           /\ pc'.step = pc.step + 1)
            => \E i \in DOMAIN src["dim_customer"] :
                  /\ Cardinality(db'.rows["dim_customer"]) = 1
                  /\ \A r \in db'.rows["dim_customer"] :
                        /\ r.id = i
                        /\ r.attr = src["dim_customer"][i].attr
                        /\ r.last_update >= src["dim_customer"][i].lu
                        /\ r.last_update <= now
                  /\ "dim_customer" \in DOMAIN db'.sync
                  /\ db'.sync["dim_customer"] = now
                  /\ db'.sync["dim_customer"] >= src["dim_customer"][i].lu]_vars
    /\ [][\A t \in Tables :
            (t \notin DOMAIN db.sync /\ t \in DOMAIN db'.sync)
                => pc.phase = "commit" /\ TableOf(pc.step) = t]_vars
    /\ [](\A t \in Tables : t \notin DOMAIN db.sync => db.rows[t] = {})

\* C15 witness: an incremental_load that started without SyncState row for
\* dim_customer has passed sync_dim_customer; the source has one customer,
\* written after the seed, and the target has one DimCustomer row and the
\* SyncState row.
C15_Witness ==
    /\ pc.kind = "incr"
    /\ pc.step = 3
    /\ hist.clean
    /\ "dim_customer" \notin DOMAIN hist.db0.sync
    /\ "dim_customer" \in DOMAIN db.sync
    /\ Cardinality(DOMAIN src["dim_customer"]) = 1
    /\ Cardinality(db.rows["dim_customer"]) = 1
    /\ \A r \in db.rows["dim_customer"] : r.attr > 0

\* ---------------------------------------------------------------------------
\* Two incremental_load processes side by side on one target file
\*
\* Each process has its own session.  A session's queries read the committed
\* target until its first INSERT or UPDATE is flushed; the flush opens the
\* write transaction and takes the write lock of the SQLite file, which it
\* holds until commit or rollback.  A process that needs the lock while the
\* other one holds it waits; when it waits too long the statement raises
\* ("database is locked") and the run ends in its except branch.  An added or
\* modified object is flushed by the next query of the session (autoflush) or
\* by the flush of update_sync_state.
\* ---------------------------------------------------------------------------

\* tables whose natural key column is declared unique=True
UniqueKeyTables == Tables \ {"dim_film"}

\* what process r's queries read
SView(r) == IF lock = r THEN runs[r].tx ELSE db

PendingObject(t, op, row) == [ table |-> t, op |-> op, row |-> row ]

\* INSERT OR REPLACE: a row with the natural key already there is overwritten
FlushOne_Replace(s, p) ==
    LET rows == s.rows[p.table]
        same == { e \in rows : e.id = p.row.id }
    IN  IF p.op = "insert" /\ same = {}
        THEN [ ok |-> TRUE, store |-> [s EXCEPT !.rows[p.table] =
                    rows \cup { [p.row EXCEPT !.key = NextKey(rows)] }] ]
        ELSE LET k == IF p.op = "insert" THEN (CHOOSE e \in same : TRUE).key
                      ELSE p.row.key
             IN  [ ok |-> TRUE, store |-> [s EXCEPT !.rows[p.table] =
                    { e \in rows : e.key # k } \cup { [p.row EXCEPT !.key = k] }] ]

\* the INSERT or UPDATE of one pending object in store s: ok is FALSE when the
\* INSERT violates the UNIQUE constraint of the natural key (IntegrityError)
FlushOne(s, p) ==
    LET rows == s.rows[p.table] IN
    IF p.op = "insert"
    THEN IF p.table \in UniqueKeyTables /\ p.row.id \in { e.id : e \in rows }
         THEN [ ok |-> FALSE, store |-> s ]
         ELSE [ ok |-> TRUE, store |-> [s EXCEPT !.rows[p.table] =
                    rows \cup { [p.row EXCEPT !.key = NextKey(rows)] }] ]
    ELSE [ ok |-> TRUE, store |-> [s EXCEPT !.rows[p.table] =
                    { e \in rows : e.key # p.row.key } \cup { p.row }] ]

\* session.flush() of process r: nothing to do, or the pending object written
Flush(r) ==
    IF runs[r].pend = {}
    THEN [ ok |-> TRUE, store |-> SView(r) ]
    ELSE FlushOne(SView(r), CHOOSE p \in runs[r].pend : TRUE)

\* process r can flush now: it has nothing pending or the lock is free or its own
CanFlush(r) == runs[r].pend = {} \/ lock \in {0, r}

\* the lock after a flush of process r
LockAfterFlush(r) == IF runs[r].pend = {} THEN lock ELSE r

\* process r ends in the except branch: rollback, close
Failed(r) ==
    [ runs[r] EXCEPT !.st = "failed", !.phase = "idle", !.ch = << >>,
                     !.todo = << >>, !.pend = {}, !.tx = EmptyStore,
                     !.maps = KeyMaps(EmptyStore) ]

\* process r after the sync at its position has returned
CAfter(r) ==
    [ runs[r] EXCEPT !.step = @ + 1,
                     !.phase = IF runs[r].step + 1 = Len(SyncOrder)
                               THEN "bridge" ELSE "extract",
                     !.ch = << >>, !.todo = << >>, !.pend = {},
                     !.tx = EmptyStore, !.maps = KeyMaps(EmptyStore) ]

ConcInit ==
    /\ now = 1
    /\ \/ src = SeedSource
       \/ src = [t \in Tables |->
                   [i \in (IF t \in {"dim_film", "dim_customer"} THEN Ids ELSE {1})
                      |-> SrcRow(t, 0, 1, 1, 1)]]
    /\ links = SeedLinks
    /\ db = EmptyStore
    /\ tx = EmptyStore
    /\ pc = Idle
    /\ changes = << >>
    /\ hist = [writes |-> 0, last |-> NoRun, chain |-> "none", clean |-> FALSE,
               stale |-> FALSE, db0 |-> EmptyStore, pre |-> EmptyStore]
    /\ runs = [r \in Runs |-> NewRun]
    /\ lock = 0
    /\ cal = NoCalendar
    /\ report = NoReport

\* what the side-by-side scenario leaves alone; the two processes run within
\* one reading of the clock
ConcFrame == UNCHANGED << now, src, links, tx, pc, changes, hist, cal, report >>

\* python main.py incremental, in process r
CStart(r) ==
    /\ runs[r].st = "new"
    /\ runs' = [runs EXCEPT ![r] = [@ EXCEPT !.st = "run", !.step = 1,
                                             !.phase = "extract"]]
    /\ UNCHANGED << db, lock >>
    /\ ConcFrame

\* read the watermark, query the source, build the key maps
CExtract(r) ==
    /\ runs[r].phase = "extract"
    /\ LET t  == SyncOrder[runs[r].step]
           ch == ChangedRows(src, t, last_sync(SView(r), t))
       IN  IF NoChanges(ch)
           THEN runs' = [runs EXCEPT ![r] = CAfter(r)]
           ELSE \E order \in Perms(DOMAIN ch) :
                  runs' = [runs EXCEPT ![r] =
                             [@ EXCEPT !.phase = "upsert", !.ch = ch, !.todo = order,
                                       !.maps = KeyMaps(SView(r))]]
    /\ UNCHANGED << db, lock >>
    /\ ConcFrame

\* one iteration of the upsert loop: the query for the existing row (which
\* first flushes the object of the previous iteration), then update or add
CLookup(r) ==
    /\ runs[r].phase = "upsert"
    /\ CanFlush(r)
    /\ LET t  == SyncOrder[runs[r].step]
           i  == Head(runs[r].todo)
           fl == Flush(r)
           found == { e \in fl.store.rows[t] : e.id = i }
       IN  IF ~fl.ok
           THEN /\ runs' = [runs EXCEPT ![r] = Failed(r)]
                /\ lock' = IF lock = r THEN 0 ELSE lock
           ELSE /\ lock' = LockAfterFlush(r)
                /\ runs' = [runs EXCEPT ![r] =
                     [@ EXCEPT
                        !.tx   = IF lock' = r THEN fl.store ELSE EmptyStore,
                        !.todo = Tail(@),
                        !.phase = IF Len(runs[r].todo) = 1 THEN "commit" ELSE "upsert",
                        !.pend = IF found # {}
                                 THEN { PendingObject(t, "update",
                                          UpdateRow(t, CHOOSE x \in found :
                                                         \A y \in found : x.key <= y.key,
                                                    runs[r].ch[i], runs[r].maps, now)) }
                                 ELSE { PendingObject(t, "insert",
                                          NewRow(t, NULL, i, runs[r].ch[i],
                                                 runs[r].maps, now)) },
                        !.ins  = IF found # {} THEN @ ELSE @ \cup { << t, i >> } ]]
    /\ UNCHANGED db
    /\ ConcFrame

\* update_sync_state (its query flushes the last object) and commit
CCommit(r) ==
    /\ runs[r].phase = "commit"
    /\ CanFlush(r)
    /\ LET t  == SyncOrder[runs[r].step]
           fl == Flush(r)
       IN  IF ~fl.ok
           THEN /\ runs' = [runs EXCEPT ![r] = Failed(r)]
                /\ lock' = IF lock = r THEN 0 ELSE lock
                /\ db' = db
           ELSE /\ db' = commit(db, update_sync_state(fl.store, t, now))
                /\ lock' = 0
                /\ runs' = [runs EXCEPT ![r] = CAfter(r)]
    /\ ConcFrame

\* sync_bridge_tables (its DELETE takes the lock), commit, end of the run
CBridge(r) ==
    /\ runs[r].phase = "bridge"
    /\ lock = 0
    /\ db' = commit(db, sync_bridge_tables(db, links))
    /\ runs' = [runs EXCEPT ![r] = [@ EXCEPT !.st = "done", !.phase = "idle"]]
    /\ UNCHANGED lock
    /\ ConcFrame

\* process r waits for the lock too long: "database is locked" is raised
CFail(r) ==
    /\ runs[r].st = "run"
    /\ \/ runs[r].phase \in {"upsert", "commit"} /\ ~CanFlush(r)
       \/ runs[r].phase = "bridge" /\ lock # 0
    /\ runs' = [runs EXCEPT ![r] = Failed(r)]
    /\ lock' = IF lock = r THEN 0 ELSE lock
    /\ UNCHANGED db
    /\ ConcFrame

ConcNext ==
    \/ \E r \in Runs : CStart(r)
    \/ \E r \in Runs : CExtract(r)
    \/ \E r \in Runs : CLookup(r)
    \/ \E r \in Runs : CCommit(r)
    \/ \E r \in Runs : CBridge(r)
    \/ \E r \in Runs : CFail(r)

SpecConc == ConcInit /\ [][ConcNext]_vars

\* both processes have ended
BothOver == \A r \in Runs : runs[r].st \in {"done", "failed"}

\* both processes looked natural key i of table t up as absent and added a row
BothAdded(t, i) == \A r \in Runs : << t, i >> \in runs[r].ins

\* C16: Concurrent runs are unsafe.  Nothing keeps two incremental_load
\* processes out of the same table sync.  Whenever both have looked the same
\* natural key up as absent and both have ended, a single-run guarantee is
\* lost: one of them ended in its except branch, or the table holds two rows
\* for that natural key (which the missing UNIQUE constraint allows in
\* dim_film only).
C16_ConcurrentUnsafe ==
    /\ \A t \in Tables : \A i \in Ids :
          (BothAdded(t, i) /\ BothOver) =>
              \/ \E r \in Runs : runs[r].st = "failed"
              \/ t = "dim_film" /\ Cardinality(RowsFor(db, t, i)) = 2
    /\ \A t \in UniqueKeyTables : \A r1, r2 \in db.rows[t] : r1.id = r2.id => r1 = r2

\* C16 witness: both processes have completed their runs and dim_film holds
\* two committed rows for film 1.
C16_Witness ==
    /\ \A r \in Runs : runs[r].st = "done"
    /\ BothAdded("dim_film", 1)
    /\ Cardinality(RowsFor(db, "dim_film", 1)) = 2

\* the other outcome: a process has ended on the duplicate of a natural key
\* that both had looked up as absent, the other process having completed
C16_FailedOnDuplicate ==
    /\ runs[1].st = "done"
    /\ runs[2].st = "failed"
    /\ BothAdded("dim_customer", 1)
    /\ lock = 0
    /\ \A t \in Dims : Cardinality(RowsFor(db, t, 1)) = 1

\* ---------------------------------------------------------------------------
\* load_dim_date
\* ---------------------------------------------------------------------------

end_year == start_year + MaxYears - 1

IsLeap(y) == (y % 4 = 0 /\ y % 100 # 0) \/ y % 400 = 0

DaysInMonth(y, mo) ==
    IF mo = 2 THEN (IF IsLeap(y) THEN 29 ELSE 28)
    ELSE IF mo \in {4, 6, 9, 11} THEN 30 ELSE 31

\* current_date += timedelta(days=1)
NextDay(dt) ==
    IF dt[3] < DaysInMonth(dt[1], dt[2]) THEN << dt[1], dt[2], dt[3] + 1 >>
    ELSE IF dt[2] < 12 THEN << dt[1], dt[2] + 1, 1 >>
    ELSE << dt[1] + 1, 1, 1 >>

RECURSIVE DaysBeforeMonth(_, _)
DaysBeforeMonth(y, mo) ==
    IF mo = 1 THEN 0 ELSE DaysBeforeMonth(y, mo - 1) + DaysInMonth(y, mo - 1)

\* date.toordinal(): 1 for 0001-01-01
Ordinal(dt) ==
    LET y == dt[1] - 1 IN
    y * 365 + (y \div 4) - (y \div 100) + (y \div 400)
      + DaysBeforeMonth(dt[1], dt[2]) + dt[3]

\* date.weekday(): Monday is 0, Sunday is 6
Weekday(dt) == (Ordinal(dt) + 6) % 7

\* int(current_date.strftime('%Y%m%d'))
DateKey(dt) == dt[1] * 10000 + dt[2] * 100 + dt[3]

\* is_weekend = weekday() >= 6: Saturday is missed
IsWeekend_SundayOnly(dt) == Weekday(dt) >= 6

\* is_weekend = current_date.weekday() >= 5
IsWeekend(dt) == Weekday(dt) >= 5

DimDateRow(dt) ==
    [ date_key     |-> DateKey(dt),
      date         |-> dt,
      year         |-> dt[1],
      quarter      |-> ((dt[2] - 1) \div 3) + 1,
      month        |-> dt[2],
      day_of_month |-> dt[3],
      day_of_week  |-> Weekday(dt),
      is_weekend   |-> IsWeekend(dt) ]

\* every date is taken as new
NotExisting_Always(d_key, existing_keys) == TRUE

\* if d_key not in existing_keys
NotExisting(d_key, existing_keys) == d_key \notin existing_keys

\* add_all(batch); commit(): the INSERTs raise when a date_key is already there
CommitBatch(c) ==
    IF { b.date_key : b \in c.batch } \cap { r.date_key : r \in c.rows } # {}
    THEN [c EXCEPT !.phase = "error", !.batch = {}]
    ELSE [c EXCEPT !.rows = @ \cup c.batch, !.batch = {}]

\* python main.py init, on a new target or on one where an earlier call was
\* interrupted or has completed
DStart ==
    /\ cal.phase \in {"idle", "done"}
    /\ cal' = [cal EXCEPT !.phase = "loop",
                          !.existing_keys = { r.date_key : r \in cal.rows },
                          !.batch = {},
                          !.current_date = << start_year, 1, 1 >>]
    /\ UNCHANGED << now, src, links, db, tx, pc, changes, hist, runs, lock, report >>

\* one pass through the body of the while loop
DStep ==
    /\ cal.phase = "loop"
    /\ cal.current_date[1] <= end_year
    /\ LET dt    == cal.current_date
           added == IF NotExisting(DateKey(dt), cal.existing_keys)
                    THEN cal.batch \cup { DimDateRow(dt) } ELSE cal.batch
           c     == [cal EXCEPT !.batch = added, !.current_date = NextDay(dt)]
       IN  cal' = IF Cardinality(added) >= BatchSize THEN CommitBatch(c) ELSE c
    /\ UNCHANGED << now, src, links, db, tx, pc, changes, hist, runs, lock, report >>

\* after the loop: if batch: add_all, commit
DFinish ==
    /\ cal.phase = "loop"
    /\ cal.current_date[1] > end_year
    /\ LET c == IF cal.batch # {} THEN CommitBatch(cal) ELSE cal
       IN  cal' = IF c.phase = "error" THEN c ELSE [c EXCEPT !.phase = "done"]
    /\ UNCHANGED << now, src, links, db, tx, pc, changes, hist, runs, lock, report >>

\* the process is killed in the loop: the batch in memory is lost, the
\* committed batches stay
DInterrupt ==
    /\ cal.phase = "loop"
    /\ cal' = [cal EXCEPT !.phase = "idle", !.batch = {}]
    /\ UNCHANGED << now, src, links, db, tx, pc, changes, hist, runs, lock, report >>

DateNext == DStart \/ DStep \/ DFinish \/ DInterrupt

SpecDate == Init /\ [][DateNext]_vars

\* the calendar days of the range, as date keys
CalendarKeys ==
    { t[1] * 10000 + t[2] * 100 + t[3] :
        t \in { u \in (start_year..end_year) \X (1..12) \X (1..31) :
                  u[3] <= DaysInMonth(u[1], u[2]) } }

DateKeysOf(rows) == { r.date_key : r \in rows }

\* C17: Calendar completeness and idempotence.  load_dim_date never raises
\* and never holds or commits a second row for a date key.  When a call has
\* completed, DimDate has exactly one row for every calendar day of the
\* range and no other, and in every row the weekend flag is set iff the day
\* of week is 5 (Saturday) or 6 (Sunday), 2000-01-01 being a Saturday.  A
\* call, first or repeated or resumed after an interruption, only adds rows
\* of days that were missing, and changes nothing once the range is complete.
C17_Calendar ==
    /\ [](cal.phase # "error")
    /\ [](Cardinality(DateKeysOf(cal.rows)) = Cardinality(cal.rows))
    /\ [](DateKeysOf(cal.batch) \cap DateKeysOf(cal.rows) = {})
    /\ [](\A r \in cal.rows \cup cal.batch :
            /\ r.day_of_week \in 0..6
            /\ r.is_weekend <=> r.day_of_week \in {5, 6}
            /\ r.date = << start_year, 1, 1 >> => r.day_of_week = 5
            /\ r.date = << start_year, 1, 3 >> => r.day_of_week = 0)
    /\ [](cal.phase = "done" =>
            /\ DateKeysOf(cal.rows) = CalendarKeys
            /\ Cardinality(cal.rows) = Cardinality(CalendarKeys))
    /\ [][/\ cal.rows \subseteq cal'.rows
          /\ \A r \in cal'.rows \ cal.rows :
                r.date_key \in CalendarKeys \ DateKeysOf(cal.rows)]_vars
    /\ [][DateKeysOf(cal.rows) = CalendarKeys
            => cal'.rows = cal.rows /\ cal'.batch = {}]_vars

\* C17 witness: a call has completed the range after an earlier call was
\* interrupted with exactly one batch committed.
C17_Witness ==
    /\ cal.phase = "done"
    /\ Cardinality(cal.existing_keys) = BatchSize
    /\ DateKeysOf(cal.rows) = CalendarKeys
    /\ Cardinality(cal.rows) > BatchSize

\* ---------------------------------------------------------------------------
\* validate_data, applied to a source and a target
\* ---------------------------------------------------------------------------

\* a target row of natural key 1 with content a, as the syncs insert it
ValRow(t, a) ==
    NewRow(t, 1, 1, [SrcRow(t, a, 1, 1, 1) EXCEPT !.lu = 1], KeyMaps(EmptyStore), 1)

\* per table the source has its row or not, the target has its row or not;
\* the payment amounts of the two sides are equal or one hundredth apart
ValInit ==
    /\ now = 1
    /\ \E has \in [Tables -> BOOLEAN], a \in {0, 1} :
          src = [t \in Tables |->
                   IF has[t] THEN [i \in {1} |-> [SrcRow(t, a, 1, 1, 1) EXCEPT !.lu = 1]]
                   ELSE << >>]
    /\ links = [fa |-> {}, fc |-> {}]
    /\ \E has \in [Tables -> BOOLEAN], a \in {0, 1} :
          db = [EmptyStore EXCEPT
                  !.rows = [t \in Tables |-> IF has[t] THEN { ValRow(t, a) } ELSE {}]]
    /\ tx = db
    /\ pc = Idle
    /\ changes = << >>
    /\ hist = [writes |-> 0, last |-> NoRun, chain |-> "none", clean |-> FALSE,
               stale |-> FALSE, db0 |-> EmptyStore, pre |-> EmptyStore]
    /\ runs = [r \in Runs |-> NewRun]
    /\ lock = 0
    /\ cal = NoCalendar
    /\ report = NoReport

\* python main.py validate: queries on both sides, prints, closes the sessions
Validate ==
    /\ pc = Idle
    /\ report' = validate_data(src, db)
    /\ UNCHANGED << now, src, links, db, tx, pc, changes, hist, runs, lock, cal >>

SpecValidate == ValInit /\ [][Validate]_vars

\* C18: Validator is read-only and exhaustive.  validate_data leaves every
\* row of the source and of the target as it is.  Its report has a status for
\* each of the seven counts, OK iff the two counts are equal, and for the
\* revenue, OK iff the sums are less than the tolerance apart, whatever the
\* other metrics are; the result is FAILED iff one of the eight is FAIL.
C18_ValidatorReadOnlyExhaustive ==
    /\ [][src' = src /\ db' = db /\ tx' = tx /\ links' = links]_vars
    /\ [](report # NoReport =>
            /\ DOMAIN report.counts = Tables
            /\ \A t \in Tables :
                  /\ report.counts[t] \in {"OK", "FAIL"}
                  /\ report.counts[t] = "OK" <=>
                        Cardinality(DOMAIN src[t]) = Cardinality(db.rows[t])
            /\ report.revenue \in {"OK", "FAIL"}
            /\ report.revenue = "OK" <=>
                  LET s == IF 1 \in DOMAIN src["fact_payment"]
                           THEN src["fact_payment"][1].attr ELSE 0
                      g == IF db.rows["fact_payment"] = {} THEN 0
                           ELSE (CHOOSE r \in db.rows["fact_payment"] : TRUE).attr
                  IN  s = g
            /\ report.result \in {"PASSED", "FAILED"}
            /\ report.result = "FAILED" <=>
                  \/ \E t \in Tables : report.counts[t] = "FAIL"
                  \/ report.revenue = "FAIL")

\* C18 witness: a report with a FAIL on the first count, OK on a later count,
\* FAIL on the last count and FAIL on the revenue.
C18_Witness ==
    /\ report # NoReport
    /\ report.counts["dim_film"] = "FAIL"
    /\ report.counts["dim_customer"] = "OK"
    /\ report.counts["fact_payment"] = "FAIL"
    /\ report.revenue = "FAIL"
    /\ report.result = "FAILED"

\* natural keys of the source rows of table t stamped later than w
LaterThan(t, w) == { i \in DOMAIN src[t] : src[t][i].lu > w }

\* W: the committed watermark of the table whose sync the run is in
W == last_sync(db, TableOf(pc.step))

\* C19: Strict watermark filter.  The step of a sync that reads the watermark
\* W and queries the source goes on to the upsert loop with exactly the
\* source rows stamped strictly later than W (all rows when the table has no
\* SyncState row), and returns at once when there is none; the natural keys
\* whose committed rows the sync's commit changes are exactly the extracted
\* ones, so a row stamped W or earlier is not processed.
C19_StrictFilter ==
    /\ [][(pc.phase = "extract" /\ pc' # pc /\ ~FailStep) =>
            /\ pc'.phase = "upsert" =>
                  /\ DOMAIN changes' = LaterThan(TableOf(pc.step), W)
                  /\ \A i \in DOMAIN changes' : changes'[i] = src[TableOf(pc.step)][i]
            /\ pc'.phase # "upsert" => LaterThan(TableOf(pc.step), W) = {}
            /\ TableOf(pc.step) \notin DOMAIN db.sync =>
                  LaterThan(TableOf(pc.step), W) = DOMAIN src[TableOf(pc.step)]]_vars
    /\ [][(pc.phase = "commit" /\ pc'.step = pc.step + 1) =>
            { i \in Ids : RowsFor(db', TableOf(pc.step), i) # RowsFor(db, TableOf(pc.step), i) }
                = DOMAIN changes]_vars
    /\ [](pc.phase \in {"upsert", "commit"} =>
            \A i \in DOMAIN changes : changes[i].lu > W)

\* C19 witness: a sync has extracted one row and left out a row of the same
\* table that is stamped exactly W.
C19_Witness ==
    /\ pc.phase = "upsert"
    /\ DOMAIN changes # {}
    /\ \E i \in DOMAIN src[TableOf(pc.step)] :
          /\ src[TableOf(pc.step)][i].lu = W
          /\ i \notin DOMAIN changes

\* the association (natural keys) a bridge row (surrogate keys) stands for in s
LinkOf(s, t, b) ==
    { << r1.id, r2.id >> : r1 \in { r \in s.rows["dim_film"] : r.key = b[1] },
                           r2 \in { r \in s.rows[t] : r.key = b[2] } }

\* bridge contents a rebuild may find: none, the committed ones, every pair
PriorBridges == { {}, db.bfa \cup db.bfc, (0..MaxId + 1) \X (0..MaxId + 1) }

\* C20: Bridge rebuild is a full refresh.  The bridge tables sync_bridge_tables
\* commits are the same whatever bridge rows the call finds (they are a
\* function of the current source associations and dimension tables); every
\* committed bridge row stands for an association the source has now, so a
\* removed association is absent; a second rebuild over the same source and
\* dimensions leaves the same rows.
C20_FullRefresh ==
    [][DoneStep =>
          /\ \A b1, b2 \in PriorBridges :
                sync_bridge_tables([tx EXCEPT !.bfa = b1, !.bfc = b2], links) = db'
          /\ \A b \in db'.bfa : LinkOf(db', "dim_actor", b) \cap links.fa # {}
          /\ \A b \in db'.bfc : LinkOf(db', "dim_category", b) \cap links.fc # {}
          /\ sync_bridge_tables(db', links) = db'
      ]_vars

\* C20 witness: a rebuild has removed a committed bridge row, and an
\* association the source no longer has, with both endpoints in the target
\* dimensions, has no bridge row.
C20_Witness ==
    /\ pc = Idle
    /\ hist.last.outcome = "ok"
    /\ hist.last.dropped
    /\ \E l \in SeedLinks.fa \ links.fa :
          /\ l[1] \in IdsIn(db, "dim_film")
          /\ l[2] \in IdsIn(db, "dim_actor")
          /\ \A b \in db.bfa : l \notin LinkOf(db, "dim_actor", b)

\* the committed table t loses a natural key, or a row, in this step
Shrinks(t) ==
    \/ ~(IdsIn(db, t) \subseteq IdsIn(db', t))
    \/ Cardinality(db'.rows[t]) < Cardinality(db.rows[t])

\* C21: Incremental load never deletes dimension or fact rows.  The only step
\* in which a committed dimension or fact table loses a natural key or a row
\* is the clear step of full_load; in particular no step of an
\* incremental_load, successful or failed, and no source-side delete does,
\* and the session of an incremental_load never holds fewer natural keys than
\* the committed table.
C21_NeverDeletes ==
    /\ [][(\E t \in Tables : Shrinks(t)) => pc.kind = "full" /\ pc.phase = "clear"]_vars
    /\ [](pc.kind = "incr" => \A t \in Tables : IdsIn(db, t) \subseteq IdsIn(tx, t))

\* C21 witness: an incremental_load that started after a source row was
\* deleted has completed, and the row is still in the target.
C21_Witness ==
    /\ pc = Idle
    /\ hist.last.outcome = "ok"
    /\ hist.chain = "ok"
    /\ \E t \in Tables : \E i \in IdsIn(db, t) : i \notin DOMAIN src[t]

\* every non-null dimension key on a fact row of s is the surrogate key of a
\* row of the dimension
FactRefsResolve(s) ==
    \A t \in Tables \ Dims : \A r \in s.rows[t] :
        /\ r.film_key # NULL     => r.film_key \in KeysIn(s, "dim_film")
        /\ r.customer_key # NULL => r.customer_key \in KeysIn(s, "dim_customer")
        /\ r.store_key # NULL    => r.store_key \in KeysIn(s, "dim_store")

\* C22: Fact referential integrity.  In every committed state of the target,
\* every non-null film_key, customer_key and store_key on a fact_rental or
\* fact_payment row is the surrogate key of a row present in dim_film,
\* dim_customer or dim_store.
C22_FactReferential == FactRefsResolve(db)

\* C22 witness: a full_load over a target that held a row the source no
\* longer has has completed, and the committed facts carry a film key, a
\* customer key and a store key.
C22_Witness ==
    /\ pc = Idle
    /\ hist.chain = "full"
    /\ hist.stale
    /\ \E r \in db.rows["fact_rental"] : r.film_key # NULL /\ r.customer_key # NULL
    /\ \E r \in db.rows["fact_payment"] : r.store_key # NULL /\ r.customer_key # NULL

\* a full_load raises in this step, after its clear step
FullFailStep == FailStep /\ pc.kind = "full" /\ pc.phase # "clear"

\* C23: Full reload is not all-or-nothing.  When a full_load fails after its
\* clear step, the rollback returns the session to the committed target and
\* changes nothing committed: the tables whose sync had not returned are
\* empty and without watermark, as the clear step left them, and the tables
\* synced before hold what those syncs committed (the source's rows, when the
\* source has not changed since the reload started); a row the target held
\* before the reload and the source does not have is not back.
C23_NotAllOrNothing ==
    [][FullFailStep =>
          /\ db' = db /\ tx' = db
          /\ \A k \in 1..(Len(SyncOrder) - 1) :
                /\ k >= pc.step =>
                      /\ db'.rows[TableOf(k)] = {}
                      /\ TableOf(k) \notin DOMAIN db'.sync
                /\ (k < pc.step /\ hist.clean) =>
                      /\ IdsIn(db', TableOf(k)) = DOMAIN src[TableOf(k)]
                      /\ db'.rows[TableOf(k)] # {} => TableOf(k) \in DOMAIN db'.sync
          /\ hist.stale => \A t \in Tables : IdsIn(db', t) \subseteq DOMAIN src[t]
      ]_vars

\* C23 witness: a full_load over a target that held a row the source no
\* longer has has failed in a fact sync; the dimensions are reloaded, the
\* facts are empty and without watermark.
C23_Witness ==
    /\ pc = Idle
    /\ hist.last.outcome = "failed"
    /\ hist.stale
    /\ hist.last.step = StepOf("fact_rental")
    /\ db.rows["dim_film"] # {}
    /\ db.rows["fact_rental"] = {} /\ db.rows["fact_payment"] = {}
    /\ DOMAIN src["fact_rental"] # {} /\ DOMAIN src["fact_payment"] # {}
    /\ "fact_payment" \notin DOMAIN db.sync

\* a committed SyncState row is removed, or its timestamp decreases, in this step
WatermarkLost ==
    \E t \in DOMAIN db.sync : t \notin DOMAIN db'.sync \/ db'.sync[t] < db.sync[t]

\* C24: Watermark monotonicity.  The clock never goes back, and the only step
\* in which a committed SyncState row is removed or its timestamp decreases
\* is the clear step of full_load: no step of an incremental_load, successful
\* or failed, does; a committed watermark is never later than the clock.
C24_WatermarkMonotone ==
    /\ [][now' >= now]_vars
    /\ [][WatermarkLost => pc.kind = "full" /\ pc.phase = "clear"]_vars
    /\ [](\A t \in DOMAIN db.sync : db.sync[t] <= now)

\* C24 witness: an incremental_load has failed after an earlier sync of the
\* same run moved its table's watermark forward; the watermarks the run did
\* not reach are the older ones.
C24_Witness ==
    /\ pc = Idle
    /\ hist.last.outcome = "failed"
    /\ hist.chain = "failed"
    /\ DOMAIN hist.db0.sync = Tables
    /\ DOMAIN db.sync = Tables
    /\ \E t \in Tables : db.sync[t] > hist.db0.sync[t]
    /\ \E t \in Tables : db.sync[t] = hist.db0.sync[t] /\ db.sync[t] < now

====
